---- MODULE Spec2Model ----
(***************************************************************************)
(* DWE Command Center: the widget statistics API (getDWEStats and the      *)
(* paginated fetchAllNotionTasks loop it drives) as a state machine.       *)
(*                                                                         *)
(* Each caller of getDWEStats is a process.  JavaScript runs a handler     *)
(* without interruption up to its next await, so one action is the code    *)
(* between two suspension points: Call runs getDWEStats from its entry to  *)
(* the first page request (or to an early return), Respond runs from the   *)
(* arrival of a page to the next page request (or to the return of the     *)
(* call), Fail is the rejection of the awaited page promise.               *)
(*                                                                         *)
(* Time is counted in minutes, record counts are scaled: a page holds      *)
(* PageSize records instead of 100 and the accumulation cap is CapPages    *)
(* full pages instead of 30.                                               *)
(*                                                                         *)
(* calculateNextRun of server.js is synchronous: one action applies it to  *)
(* a schedule string and a current instant, and keeps its locals.          *)
(*                                                                         *)
(* The HTTP handlers of server.js (handleData, handleActivity,             *)
(* handleUpload, getServices) are callback chains: one action is one       *)
(* callback, from the arrival of the request over the end of its body to   *)
(* the completion of a file read, a file write or a child process.         *)
(*                                                                         *)
(* ApiClient of client.js: one action is the code of request() between     *)
(* two awaits (the throttle timer, fetch, response.json(), the backoff     *)
(* timer); its clock counts milliseconds and moves in the steps TimeSteps. *)
(***************************************************************************)
EXTENDS Integers, Sequences, FiniteSets, TLC

\* ---- bounds ------------------------------------------------------------
NumCallers == 2
PageSize == 2
CapPages == 2
MaxElapsed == 6
MaxReq == 3

\* ---- program constants ------------------------------------------------
\* const CACHE_DURATION = 5 * 60 * 1000, in minutes
CACHE_DURATION == 5

\* the literal 3000 of the loop condition: 30 pages of page_size 100
TaskCap == CapPages * PageSize

StartTime == CACHE_DURATION
MaxClock == StartTime + MaxElapsed

Callers == 1..NumCallers

\* ---- values -----------------------------------------------------------
\* null / undefined, for a variable that otherwise holds an object
Null == [null |-> TRUE]
\* null, for a cursor; a missing name, for a status
NoCursor == "null"
Absent == "absent"
NoRequest == Null
NoResponse == Null
NoResult == Null

Cursors == {"c1", "c2"}
ErrorMessages == {"socket hang up", "Unexpected end of JSON input"}

\* raw records of the query endpoint: properties.ID.unique_id.number,
\* properties.Status.status.name, properties.Status.select.name
\* (number 0 stands for a missing number: the mapping reads it with || 0)
rawDone == [number |-> 2, status_name |-> "Done", select_name |-> Absent]
rawProgress == [number |-> 3, status_name |-> Absent, select_name |-> "In Progress"]
rawBlocked == [number |-> 4, status_name |-> "Blocked", select_name |-> "Done"]
rawBare == [number |-> 0, status_name |-> Absent, select_name |-> Absent]
rawLower == [number |-> 1, status_name |-> "done", select_name |-> Absent]

ShortPage == <<rawLower>>
FullPageA == [i \in 1..PageSize |-> IF i % 2 = 1 THEN rawDone ELSE rawProgress]
FullPageB == [i \in 1..PageSize |-> IF i = 1 THEN rawBlocked ELSE rawBare]

ResultChoices == {<<>>, ShortPage, FullPageA, FullPageB}

\* a response body; one without a results field is an error object or a
\* body of another shape
Responses ==
    [results : ResultChoices, has_more : BOOLEAN, next_cursor : Cursors \cup {NoCursor}]
    \cup [has_more : BOOLEAN, next_cursor : Cursors \cup {NoCursor}]

HasResults(resp) == "results" \in DOMAIN resp

\* the concurrent specification draws its pages from a smaller set
FewResponses == {r \in Responses : /\ HasResults(r)
                                   /\ r.next_cursor # "c2"
                                   /\ (r.has_more <=> r.next_cursor # NoCursor)
                                   /\ r.results = FullPageA}

\* ---- pure functions -----------------------------------------------------
\* response.results.map(task => ...): the two fields the statistics read
MapTask(raw) ==
    [idNumber |-> IF raw.number # 0 THEN raw.number ELSE 0,
     status |-> IF raw.status_name # Absent THEN raw.status_name
                ELSE IF raw.select_name # Absent THEN raw.select_name
                ELSE "No Status"]

MapResults(results) == [i \in 1..Len(results) |-> MapTask(results[i])]

\* the completed test matching the label without regard to case
IsCompletedAnyCase(t) == t.status \in {"Done", "done", "Completed", "Complete", "Review"}

IsCompleted(t) == t.status \in {"Done", "Completed", "Complete", "Review"}

IsInProgress(t) == t.status \in {"In Progress", "In progress"}

IsTodo(t) == t.status \in {"To Do", "To do", "No Status", "Not started"}

Max2(a, b) == IF a >= b THEN a ELSE b

\* allTasks.reduce((max, t) => Math.max(max, t.idNumber || 0), 0)
RECURSIVE ReduceMaxId(_, _)
ReduceMaxId(tasks, max) ==
    IF tasks = <<>> THEN max
    ELSE ReduceMaxId(Tail(tasks), Max2(max, Head(tasks).idNumber))

MaxIdOf(tasks) == ReduceMaxId(tasks, 0)

\* the payload with the record count reported as total
ComputeStatsCountTotal(tasks, t) ==
    [total |-> Len(tasks),
     completed |-> Len(SelectSeq(tasks, IsCompleted)),
     inProgress |-> Len(SelectSeq(tasks, IsInProgress)),
     remaining |-> Len(tasks) - Len(SelectSeq(tasks, IsCompleted)),
     maxId |-> MaxIdOf(tasks),
     activeTasks |-> Len(tasks),
     lastUpdated |-> t]

\* the payload with remaining taken from the record count
ComputeStatsRemainingOfCount(tasks, t) ==
    [total |-> MaxIdOf(tasks),
     completed |-> Len(SelectSeq(tasks, IsCompleted)),
     inProgress |-> Len(SelectSeq(tasks, IsInProgress)),
     remaining |-> Len(tasks) - Len(SelectSeq(tasks, IsCompleted)),
     maxId |-> MaxIdOf(tasks),
     activeTasks |-> Len(tasks),
     lastUpdated |-> t]

\* the object stored in cachedStats by a successful pass
ComputeStats(tasks, t) ==
    LET total == Len(tasks)
        completed == Len(SelectSeq(tasks, IsCompleted))
        inProgress == Len(SelectSeq(tasks, IsInProgress))
        maxId == MaxIdOf(tasks)
    IN [total |-> maxId,
        completed |-> completed,
        inProgress |-> inProgress,
        remaining |-> maxId - completed,
        maxId |-> maxId,
        activeTasks |-> total,
        lastUpdated |-> t]

\* the stats object of getNotionTasks in server.js
NotionStats(tasks) ==
    [total |-> Len(tasks),
     inProgress |-> Len(SelectSeq(tasks, IsInProgress)),
     completed |-> Len(SelectSeq(tasks, IsCompleted)),
     todo |-> Len(SelectSeq(tasks, IsTodo)),
     maxIdNumber |-> MaxIdOf(tasks)]

\* the spread without the cached flag
WithCachedNoFlag(stats) == stats

\* { ...cachedStats, cached: true }
WithCached(stats) == ("cached" :> TRUE) @@ stats

NoKeyPayload(t) ==
    [error |-> "Notion API key not configured",
     total |-> 1020, completed |-> 562, inProgress |-> 4,
     remaining |-> 458, maxId |-> 1020, lastUpdated |-> t]

FallbackPayload(message, t) ==
    [total |-> 1020, completed |-> 562, inProgress |-> 4,
     remaining |-> 458, maxId |-> 1020, error |-> message, lastUpdated |-> t]

\* the freshness test with <= in place of <
CacheFreshInclusive(stats, time, now) == stats # Null /\ (now - time) <= CACHE_DURATION

\* cachedStats && (now - cacheTime) < CACHE_DURATION
CacheFresh(stats, time, now) == stats # Null /\ (now - time) < CACHE_DURATION

\* hasMore && allTasks.length < 3000
LoopContinues(more, tasks) == more /\ Len(tasks) < TaskCap

\* a body that never carries the cursor
RequestBodyNoCursor(cursor) == [page_size |-> PageSize, start_cursor |-> Absent]

\* nextCursor ? { page_size, start_cursor: nextCursor } : { page_size }
RequestBody(cursor) ==
    [page_size |-> PageSize, start_cursor |-> IF cursor # NoCursor THEN cursor ELSE Absent]

\* the catch block without the cachedStats alternative
FailureResultNoCache(stats, message, t) == FallbackPayload(message, t)

\* cachedStats || { ...baseline, error: e.message, ... }
FailureResult(stats, message, t) ==
    IF stats # Null THEN stats ELSE FallbackPayload(message, t)

Inc(n) == IF n < MaxReq THEN n + 1 ELSE MaxReq

\* ---- state ------------------------------------------------------------
VARIABLES
    clock,          \* Date.now(), minutes
    NOTION_API_KEY, \* TRUE when the environment variable is set
    cachedStats,    \* module variable cachedStats
    cacheTime,      \* module variable cacheTime
    pc,             \* per call: idle, awaiting, or the return it left by
    now,            \* const now of getDWEStats
    allTasks,       \* local allTasks of fetchAllNotionTasks
    hasMore,        \* local hasMore
    nextCursor,     \* local nextCursor
    response,       \* local response: the page received last
    request,        \* body of the page request written last
    pending,        \* page requests written and not yet answered
    nreq,           \* page requests written by the current call (saturating)
    passes,         \* fetchAllNotionTasks invocations of the current call
    result,         \* value the call resolved with
    cron,           \* calculateNextRun: its argument, its locals and its return value
    activityFile,   \* content of ACTIVITY_FILE
    dataFile,       \* content of DATA_FILE
    handler,        \* per HTTP request: its route, method, body, position and responses
    svc,            \* getServices: pending, results, callbacks not yet run, responses
    msNow,          \* Date.now() of the client, milliseconds
    cache,          \* ApiClient.cache: cache key -> entry
    lastRequestTime,\* ApiClient.lastRequestTime
    calls,          \* per ApiClient.request call: its locals and position
    successAt,      \* per cache key: when a request for it last succeeded, 0 if never
    advances        \* number of times the client's clock has advanced

handlerVars == <<activityFile, dataFile, handler>>

clientVars == <<msNow, cache, lastRequestTime, calls, successAt, advances>>

vars == <<clock, NOTION_API_KEY, cachedStats, cacheTime, pc, now, allTasks, hasMore,
          nextCursor, response, request, pending, nreq, passes, result, cron,
          handlerVars, svc, clientVars>>

\* no call of calculateNextRun is under way
CronIdle == [pc |-> "idle"]

\* ---- the stored files and the HTTP requests of server.js -----------------
NumRequests == 2

Requests == 1..NumRequests

\* JSON.stringify({ entries: [] }), written by ensureFile
DefaultActivity == [kind |-> "json", entries |-> <<>>]

\* a stored activity file: a JSON document with entries, the empty string,
\* or text that JSON.parse rejects
ActivityContents ==
    {DefaultActivity, [kind |-> "empty", entries |-> <<>>], [kind |-> "garbage", entries |-> <<>>]}

\* '{}', written by ensureFile
DefaultData == [text |-> "{}", indent |-> 0]

\* no request has arrived on this connection yet
NoHandler == [pc |-> "none", route |-> "", method |-> "", body |-> Null, entry |-> Null,
              towrite |-> Null, responses |-> <<>>]

\* ---- getServices and ApiClient: the state after construction -------------
NumClientCalls == 3
NumAwaitedCalls == 2
MaxAdvances == 2

RETRY_ATTEMPTS == 3
cacheTimeout == 60000
minRequestInterval == 100

\* Date.now() when the client is constructed
ClientStart == 1000000

\* a request() call that has not been made
IdleCall == [pc |-> "idle", key |-> <<>>, attempt |-> 0, fetches |-> 0, due |-> 0, result |-> ""]

SvcIdle == [pc |-> "idle", pending |-> 0, results |-> <<>>, running |-> {}, responses |-> <<>>]

InitRest ==
    /\ dataFile = DefaultData
    /\ handler = [r \in Requests |-> NoHandler]
    /\ svc = SvcIdle
    /\ msNow = ClientStart
    /\ cache = [k \in {<<e, ":", "{}">> : e \in {"/status", "/weather?city=London"}} |-> Null]
    /\ lastRequestTime = 0
    /\ calls = [c \in 1..NumClientCalls |-> IdleCall]
    /\ successAt = [k \in {<<e, ":", "{}">> : e \in {"/status", "/weather?city=London"}} |-> 0]
    /\ advances = 0

InitDwe ==
    /\ clock = StartTime
    /\ NOTION_API_KEY \in BOOLEAN
    /\ cachedStats = Null
    /\ cacheTime = 0
    /\ pc = [p \in Callers |-> "idle"]
    /\ now = [p \in Callers |-> 0]
    /\ allTasks = [p \in Callers |-> <<>>]
    /\ hasMore = [p \in Callers |-> TRUE]
    /\ nextCursor = [p \in Callers |-> NoCursor]
    /\ response = [p \in Callers |-> NoResponse]
    /\ request = [p \in Callers |-> NoRequest]
    /\ pending = [p \in Callers |-> 0]
    /\ nreq = [p \in Callers |-> 0]
    /\ passes = [p \in Callers |-> 0]
    /\ result = [p \in Callers |-> NoResult]
    /\ cron = CronIdle

\* the server has started and found no stored files: ensureFile wrote them
Init ==
    /\ InitDwe
    /\ InitRest
    /\ activityFile = DefaultActivity

\* the server has started and found a stored activity file, which ensureFile
\* leaves as it is
HandlerInit ==
    /\ InitDwe
    /\ InitRest
    /\ activityFile \in ActivityContents

\* the call resolves with value
Leave(p, exit, value) ==
    /\ pc' = [pc EXCEPT ![p] = exit]
    /\ result' = [result EXCEPT ![p] = value]
    /\ request' = [request EXCEPT ![p] = NoRequest]

\* no pass ran to its end: the locals of fetchAllNotionTasks hold nothing
NoLocals(p) ==
    /\ allTasks' = [allTasks EXCEPT ![p] = <<>>]
    /\ hasMore' = [hasMore EXCEPT ![p] = TRUE]
    /\ nextCursor' = [nextCursor EXCEPT ![p] = NoCursor]
    /\ response' = [response EXCEPT ![p] = NoResponse]

\* https.request(...); req.write(body); req.end(); await
WriteRequest(p, cursor, outstanding) ==
    /\ request' = [request EXCEPT ![p] = RequestBody(cursor)]
    /\ pending' = [pending EXCEPT ![p] = outstanding + 1]
    /\ nreq' = [nreq EXCEPT ![p] = Inc(@)]
    /\ pc' = [pc EXCEPT ![p] = "awaiting"]

\* getDWEStats() from its entry to the first await or return
Call(p) ==
    /\ pc[p] # "awaiting"
    /\ now' = [now EXCEPT ![p] = clock]
    /\ IF CacheFresh(cachedStats, cacheTime, clock)
       THEN /\ Leave(p, "hit", WithCached(cachedStats))
            /\ NoLocals(p)
            /\ nreq' = [nreq EXCEPT ![p] = 0]
            /\ passes' = [passes EXCEPT ![p] = 0]
            /\ UNCHANGED pending
       ELSE IF ~NOTION_API_KEY
       THEN /\ Leave(p, "nokey", NoKeyPayload(clock))
            /\ NoLocals(p)
            /\ nreq' = [nreq EXCEPT ![p] = 0]
            /\ passes' = [passes EXCEPT ![p] = 0]
            /\ UNCHANGED pending
       ELSE \* fetchAllNotionTasks(): allTasks = [], hasMore = true, nextCursor = null
            /\ passes' = [passes EXCEPT ![p] = 1]
            /\ NoLocals(p)
            /\ result' = [result EXCEPT ![p] = NoResult]
            /\ LoopContinues(TRUE, <<>>)
            /\ request' = [request EXCEPT ![p] = RequestBody(NoCursor)]
            /\ pending' = [pending EXCEPT ![p] = @ + 1]
            /\ nreq' = [nreq EXCEPT ![p] = 1]
            /\ pc' = [pc EXCEPT ![p] = "awaiting"]
    /\ UNCHANGED <<clock, NOTION_API_KEY, cachedStats, cacheTime, cron, handlerVars, svc, clientVars>>

\* the awaited page promise resolves with resp
Respond(p, resp) ==
    /\ pc[p] = "awaiting"
    /\ LET tasks == IF HasResults(resp)
                    THEN allTasks[p] \o MapResults(resp.results)
                    ELSE allTasks[p]
       IN /\ allTasks' = [allTasks EXCEPT ![p] = tasks]
          /\ response' = [response EXCEPT ![p] = resp]
          /\ hasMore' = [hasMore EXCEPT ![p] = resp.has_more]
          /\ nextCursor' = [nextCursor EXCEPT ![p] = resp.next_cursor]
          /\ IF LoopContinues(resp.has_more, tasks)
             THEN /\ WriteRequest(p, resp.next_cursor, pending[p] - 1)
                  /\ UNCHANGED <<cachedStats, cacheTime, result>>
             ELSE \* return allTasks; the statistics; cachedStats = ...; cacheTime = now
                  /\ cachedStats' = ComputeStats(tasks, clock)
                  /\ cacheTime' = now[p]
                  /\ Leave(p, "fresh", ComputeStats(tasks, clock))
                  /\ pending' = [pending EXCEPT ![p] = @ - 1]
                  /\ UNCHANGED nreq
    /\ UNCHANGED <<clock, NOTION_API_KEY, now, passes, cron, handlerVars, svc, clientVars>>

\* a catch block that also stamps the slot
FailStampsSlot(p, message) ==
    /\ pc[p] = "awaiting"
    /\ Leave(p, "failed", FailureResult(cachedStats, message, clock))
    /\ NoLocals(p)
    /\ pending' = [pending EXCEPT ![p] = @ - 1]
    /\ cacheTime' = clock
    /\ UNCHANGED <<clock, NOTION_API_KEY, cachedStats, now, nreq, passes, cron, handlerVars, svc, clientVars>>

\* the awaited page promise rejects (socket error, JSON.parse throws) or the
\* mapping throws: control reaches the catch block of getDWEStats
Fail(p, message) ==
    /\ pc[p] = "awaiting"
    /\ Leave(p, "failed", FailureResult(cachedStats, message, clock))
    /\ NoLocals(p)
    /\ pending' = [pending EXCEPT ![p] = @ - 1]
    /\ UNCHANGED <<clock, NOTION_API_KEY, cachedStats, cacheTime, now, nreq, passes, cron, handlerVars, svc, clientVars>>

\* time passes
Tick ==
    /\ clock < MaxClock
    /\ clock' = clock + 1
    /\ UNCHANGED <<NOTION_API_KEY, cachedStats, cacheTime, pc, now, allTasks, hasMore,
                   nextCursor, response, request, pending, nreq, passes, result, cron,
                   handlerVars, svc, clientVars>>

\* one caller at a time: calls follow one another
Next ==
    \/ Call(1)
    \/ \E resp \in Responses : Respond(1, resp)
    \/ \E message \in ErrorMessages : Fail(1, message)
    \/ Tick

Spec == Init /\ [][Next]_vars

\* every page request is eventually answered
FairSpec == Spec /\ WF_vars(\E resp \in Responses : Respond(1, resp))

\* several callers, interleaved at the awaits
ConcNext ==
    \/ \E p \in Callers : Call(p)
    \/ \E p \in Callers : \E resp \in FewResponses : Respond(p, resp)
    \/ \E p \in Callers : \E message \in ErrorMessages : Fail(p, message)
    \/ Tick

ConcSpec == Init /\ [][ConcNext]_vars

TypeOK ==
    /\ clock \in StartTime..MaxClock
    /\ pc \in [Callers -> {"idle", "awaiting", "hit", "nokey", "fresh", "failed"}]
    /\ \A p \in Callers : pending[p] \in 0..1

\* ---- calculateNextRun (server.js) ---------------------------------------
\* A schedule string is a sequence of lexemes: a run of whitespace or a
\* maximal run of other characters (a token).  A token is *, a step star
\* slash n, a decimal literal n, or a word that is none of these.
WS == [kind |-> " ", n |-> 0]
Star == [kind |-> "*", n |-> 0]
Step(n) == [kind |-> "*/", n |-> n]
Lit(n) == [kind |-> "lit", n |-> n]
Word == [kind |-> "word", n |-> 0]
\* the empty string, as a part of a split
EmptyPart == [kind |-> "", n |-> 0]

\* NaN, and the time value of an Invalid Date
NaN == -1

\* schedule.split(/\s+/): every whitespace run ends a part, also an empty one
RECURSIVE SplitFrom(_, _, _)
SplitFrom(lexemes, parts, current) ==
    IF lexemes = <<>> THEN Append(parts, current)
    ELSE IF Head(lexemes) = WS
         THEN SplitFrom(Tail(lexemes), Append(parts, current), EmptyPart)
         ELSE SplitFrom(Tail(lexemes), parts, Head(lexemes))

Split(str) == SplitFrom(str, <<>>, EmptyPart)

\* the destructuring with the last name bound one place early
DestructureShifted(parts) ==
    [minute |-> parts[1], hour |-> parts[2], dayOfMonth |-> parts[3],
     month |-> parts[4], dayOfWeek |-> parts[4]]

\* const [minute, hour, dayOfMonth, month, dayOfWeek] = parts
Destructure(parts) ==
    [minute |-> parts[1], hour |-> parts[2], dayOfMonth |-> parts[3],
     month |-> parts[4], dayOfWeek |-> parts[5]]

\* field.startsWith('*/'), field.includes('/'), field === '*'
StartsWithStep(field) == field.kind = "*/"

IncludesSlash(field) == field.kind = "*/"

IsStar(field) == field.kind = "*"

\* parseInt(field) and parseInt(field.replace('*/', ''))
ParseInt(field) == IF field.kind \in {"lit", "*/"} THEN field.n ELSE NaN

\* Dates: minutes of local time since 2023-12-01 00:00, a Friday; December
\* has 31 days.  The zone has no clock change in December and January.
DayOf(t) == t \div 1440

GetMinutes(t) == t % 60

GetHours(t) == (t \div 60) % 24

GetDay(t) == (5 + DayOf(t)) % 7

GetDate(t) == IF DayOf(t) < 31 THEN DayOf(t) + 1 ELSE DayOf(t) - 30

GetMonth(t) == IF DayOf(t) < 31 THEN 11 ELSE 0

\* the setters normalise a field that is out of range into the next ones
SetMinutes(t, m) == IF t = NaN \/ m = NaN THEN NaN ELSE t - GetMinutes(t) + m

SetHours(t, h) == IF t = NaN \/ h = NaN THEN NaN ELSE t - 60 * GetHours(t) + 60 * h

SetDate(t, d) == IF t = NaN \/ d = NaN THEN NaN ELSE t + 1440 * (d - GetDate(t))

\* the comparison with < in place of <=
NotAfterStrict(next, instant) == next # NaN /\ next < instant

\* next <= now; no comparison with an Invalid Date is true
NotAfter(next, instant) == next # NaN /\ next <= instant

Plus(a, b) == IF a = NaN \/ b = NaN THEN NaN ELSE a + b

\* the minute field with the rollover tested by > in place of >=
MinuteStepLateRollover(minute, instant) ==
    IF StartsWithStep(minute)
    THEN LET interval == ParseInt(minute)
             currentMin == GetMinutes(instant)
             nextMin == (currentMin \div interval) * interval + interval
         IN IF nextMin > 60
            THEN [next |-> SetMinutes(SetHours(instant, GetHours(instant) + 1), nextMin - 60),
                  hourModified |-> TRUE]
            ELSE [next |-> SetMinutes(instant, nextMin), hourModified |-> FALSE]
    ELSE IF IsStar(minute)
    THEN [next |-> SetMinutes(instant, GetMinutes(instant) + 1), hourModified |-> FALSE]
    ELSE [next |-> SetMinutes(instant, ParseInt(minute)), hourModified |-> FALSE]

\* lines 351-367: the minute field
MinuteStep(minute, instant) ==
    IF StartsWithStep(minute)
    THEN LET interval == ParseInt(minute)
             currentMin == GetMinutes(instant)
             nextMin == (currentMin \div interval) * interval + interval
         IN IF nextMin >= 60
            THEN [next |-> SetMinutes(SetHours(instant, GetHours(instant) + 1), nextMin - 60),
                  hourModified |-> TRUE]
            ELSE [next |-> SetMinutes(instant, nextMin), hourModified |-> FALSE]
    ELSE IF IsStar(minute)
    THEN [next |-> SetMinutes(instant, GetMinutes(instant) + 1), hourModified |-> FALSE]
    ELSE [next |-> SetMinutes(instant, ParseInt(minute)), hourModified |-> FALSE]

\* the hour field without the test of the minute field
HourStepNoGuard(minute, hour, instant, next, hourModified) ==
    IF StartsWithStep(hour)
    THEN SetMinutes(SetHours(next, GetHours(instant) + ParseInt(hour)), 0)
    ELSE IF ~IsStar(hour)
    THEN IF ~hourModified
         THEN LET set == SetHours(next, ParseInt(hour))
              IN IF NotAfter(set, instant) THEN SetDate(set, GetDate(set) + 1) ELSE set
         ELSE next
    ELSE next

\* lines 369-385: the hour field
HourStep(minute, hour, instant, next, hourModified) ==
    IF StartsWithStep(hour)
    THEN IF ~StartsWithStep(minute)
         THEN SetMinutes(SetHours(next, GetHours(instant) + ParseInt(hour)), 0)
         ELSE next
    ELSE IF ~IsStar(hour)
    THEN IF ~hourModified
         THEN LET set == SetHours(next, ParseInt(hour))
              IN IF NotAfter(set, instant) THEN SetDate(set, GetDate(set) + 1) ELSE set
         ELSE next
    ELSE next

\* lines 387-397: the day-of-week field
DayOfWeekStep(dayOfWeek, instant, next) ==
    IF ~IsStar(dayOfWeek) /\ ~IncludesSlash(dayOfWeek)
    THEN LET targetDay == ParseInt(dayOfWeek)
             currentDay == GetDay(instant)
             daysUntil == IF targetDay = NaN THEN NaN ELSE (targetDay - currentDay + 7) % 7
         IN IF daysUntil = 0 /\ NotAfter(next, instant)
            THEN SetDate(next, GetDate(next) + 7)
            ELSE IF next = NaN THEN NaN ELSE SetDate(next, Plus(GetDate(next), daysUntil))
    ELSE next

\* next.toLocaleDateString('en-US', { weekday: 'short' })
WeekdayShort(t) == <<"Sun", "Mon", "Tue", "Wed", "Thu", "Fri", "Sat">>[GetDay(t) + 1]

\* the label of an Invalid Date: "Invalid Date 12:NaNam"
InvalidLabel == <<"Invalid Date ", "12:NaNam">>

\* lines 399-411: a label is <<day prefix, hours, ":", tens and units of the
\* minutes, am or pm>>
FormatLabel(instant, next) ==
    IF next = NaN THEN InvalidLabel
    ELSE LET hours == GetHours(next)
             mins == GetMinutes(next)
             ampm == IF hours >= 12 THEN "pm" ELSE "am"
             displayHours == IF hours % 12 # 0 THEN hours % 12 ELSE 12
             isToday == GetDate(next) = GetDate(instant) /\ GetMonth(next) = GetMonth(instant)
             isTomorrow == GetDate(next) = GetDate(instant) + 1
             dayLabel == IF isToday THEN ""
                         ELSE IF isTomorrow THEN "Tomorrow "
                         ELSE WeekdayShort(next) \o " "
         IN <<dayLabel, displayHours, ":", mins \div 10, mins % 10, ampm>>

Unknown == <<"Unknown">>

\* calculateNextRun(schedule) at the instant now: the locals at its return
CalculateNextRun(schedule, instant) ==
    LET parts == Split(schedule)
    IN IF Len(parts) < 5
       THEN [pc |-> "done", schedule |-> schedule, now |-> instant, parts |-> parts,
             afterMinute |-> NaN, hourModified |-> FALSE, afterHour |-> NaN,
             next |-> NaN, label |-> Unknown]
       ELSE LET f == Destructure(parts)
                m == MinuteStep(f.minute, instant)
                h == HourStep(f.minute, f.hour, instant, m.next, m.hourModified)
                d == DayOfWeekStep(f.dayOfWeek, instant, h)
            IN [pc |-> "done", schedule |-> schedule, now |-> instant, parts |-> parts,
                afterMinute |-> m.next, hourModified |-> m.hourModified,
                afterHour |-> h, next |-> d, label |-> FormatLabel(instant, d)]

\* ---- inputs of calculateNextRun ------------------------------------------
\* 2023-12-28 (Thursday) to 2024-01-03 (Wednesday)
CronDays == 27..33
CronHours == {0, 9, 10, 14, 23}
CronMinutes == {0, 7, 30, 52, 59}
CronNows == {1440 * d + 60 * h + m : d \in CronDays, h \in CronHours, m \in CronMinutes}

MinuteFields == {Star, Step(15), Step(7), Lit(0), Lit(30)}
HourFields == {Star, Step(2), Lit(9), Lit(14)}
DayOfWeekFields == {Star, Step(2)} \cup {Lit(d) : d \in 0..6}

FieldLists ==
    {<<mi, ho, dm[1], dm[2], dw>> : mi \in MinuteFields, ho \in HourFields,
                                  dm \in {<<Star, Star>>, <<Lit(1), Lit(6)>>},
                                  dw \in DayOfWeekFields}

\* tokens joined by single spaces
RECURSIVE Join(_)
Join(fields) ==
    IF Len(fields) = 0 THEN <<>>
    ELSE IF Len(fields) = 1 THEN <<fields[1]>>
    ELSE <<fields[1], WS>> \o Join(Tail(fields))

WellFormed == {Join(fl) : fl \in FieldLists}

MaxExtraFields == 1

SampleLists == {<<Lit(0), Lit(9), Star, Star, Lit(1)>>,
                <<Step(15), Star, Star, Star, Star>>,
                <<Lit(30), Lit(14), Star, Star, Star>>}

\* the samples cut to fewer fields or followed by more tokens, bare or with
\* whitespace in front or behind
OtherLengths ==
    LET cut == {SubSeq(fl, 1, k) : fl \in SampleLists, k \in 0..4}
        long == {fl \o [i \in 1..k |-> Word] : fl \in SampleLists, k \in 1..MaxExtraFields}
        bare == {Join(fl) : fl \in cut \cup long \cup SampleLists}
    IN (bare \ WellFormed)
       \cup {<<WS>> \o str : str \in bare}
       \cup {str \o <<WS>> : str \in bare \ {<<>>}}

Schedules == WellFormed \cup OtherLengths

\* calculateNextRun(schedule) is called at some instant and returns
CronCall ==
    /\ cron.pc = "idle"
    /\ \E schedule \in Schedules : \E t \in CronNows : cron' = CalculateNextRun(schedule, t)
    /\ UNCHANGED <<clock, NOTION_API_KEY, cachedStats, cacheTime, pc, now, allTasks, hasMore,
                   nextCursor, response, request, pending, nreq, passes, result,
                   handlerVars, svc, clientVars>>

\* the caller has used the label
CronReturn ==
    /\ cron.pc = "done"
    /\ cron' = CronIdle
    /\ UNCHANGED <<clock, NOTION_API_KEY, cachedStats, cacheTime, pc, now, allTasks, hasMore,
                   nextCursor, response, request, pending, nreq, passes, result,
                   handlerVars, svc, clientVars>>

CronNext ==
    \/ CronCall
    \/ CronReturn

CronSpec == Init /\ [][CronNext]_vars

\* ---- handleData, handleActivity, handleUpload (server.js) ----------------
Routes == {"/mc/data", "/mc/activity", "/mc/upload"}

\* OPTIONS is answered before routing and is not among them
Methods == {"GET", "POST", "PUT"}

\* request bodies: two JSON documents and a text JSON.parse rejects
Bodies == {[valid |-> TRUE, text |-> "a"], [valid |-> TRUE, text |-> "b"],
           [valid |-> FALSE, text |-> "{"]}

\* Math.floor(Math.random() * 50 + 1)
UploadSizes == {1, 50}

\* Math.random().toString(36).slice(2, 10)
UploadSlugs == {"4fzyo82m"}

\* JSON.parse(data || '{"entries":[]}'): data is undefined after a read error
ParseActivity(err, content) ==
    IF err \/ content.kind = "empty" THEN [throws |-> FALSE, entries |-> <<>>]
    ELSE IF content.kind = "json" THEN [throws |-> FALSE, entries |-> content.entries]
    ELSE [throws |-> TRUE, entries |-> <<>>]

\* activity.entries.slice(-50)
Last50(entries) ==
    IF Len(entries) <= 50 THEN entries ELSE SubSeq(entries, Len(entries) - 49, Len(entries))

\* entry = JSON.parse(body); entry.timestamp = new Date().toISOString()
\* (id tells the entries of two requests with equal bodies apart)
EntryOf(r, body, t) == [id |-> r, text |-> body.text, timestamp |-> t]

\* res.writeHead(status); res.end(body)
Send(r, status, body) ==
    handler' = [handler EXCEPT ![r].pc = "responded",
                               ![r].responses = Append(@, [status |-> status, body |-> body])]

\* lines 224 and 164 entered: fs.writeFile is under way with this content
StartWrite(r, content) ==
    handler' = [handler EXCEPT ![r].pc = "writing", ![r].towrite = content]

\* the request listener runs the handler of the route up to its return
Receive(r, route, method, body) ==
    /\ handler[r].pc = "none"
    /\ LET arrived == [NoHandler EXCEPT !.route = route, !.method = method, !.body = body]
       IN IF method = "GET" /\ route \in {"/mc/data", "/mc/activity"}
          THEN handler' = [handler EXCEPT ![r] = [arrived EXCEPT !.pc = "reading"]]
          ELSE IF method = "POST"
          THEN handler' = [handler EXCEPT ![r] = [arrived EXCEPT !.pc = "body"]]
          ELSE \* no branch of the handler matches: it returns
               handler' = [handler EXCEPT ![r] = [arrived EXCEPT !.pc = "returned"]]
    /\ UNCHANGED <<activityFile, dataFile>>

\* req.on('end', ...) of a POST
BodyEnd(r) ==
    /\ handler[r].pc = "body"
    /\ LET h == handler[r]
       IN IF ~h.body.valid
          THEN Send(r, 400, [error |-> IF h.route = "/mc/upload" THEN "Invalid data"
                                       ELSE "Invalid JSON"])
          ELSE IF h.route = "/mc/data"
          THEN StartWrite(r, [text |-> h.body.text, indent |-> 2])
          ELSE IF h.route = "/mc/activity"
          THEN handler' = [handler EXCEPT ![r].pc = "reading",
                                          ![r].entry = EntryOf(r, h.body, clock)]
          ELSE \E size \in UploadSizes : \E slug \in UploadSlugs :
                  Send(r, 200, [success |-> TRUE, filename |-> h.body.text, size |-> size,
                                url |-> slug])
    /\ UNCHANGED <<activityFile, dataFile>>

\* the callback of fs.readFile
ReadDone(r, err) ==
    /\ handler[r].pc = "reading"
    /\ LET h == handler[r]
           activity == ParseActivity(err, activityFile)
       IN IF h.route = "/mc/data"
          THEN IF err THEN Send(r, 500, [error |-> "Failed to read data"])
               ELSE Send(r, 200, [data |-> dataFile])
          ELSE IF h.method = "GET" /\ err
          THEN Send(r, 500, [error |-> "Failed to read"])
          ELSE IF activity.throws
          THEN \* the exception leaves the callback; the uncaughtException
               \* listener logs it
               handler' = [handler EXCEPT ![r].pc = "threw"]
          ELSE IF h.method = "GET"
          THEN Send(r, 200, [entries |-> Last50(activity.entries)])
          ELSE StartWrite(r, [kind |-> "json", entries |-> Append(activity.entries, h.entry)])
    /\ UNCHANGED <<activityFile, dataFile>>

\* the callback of fs.writeFile
WriteDone(r, err) ==
    /\ handler[r].pc = "writing"
    /\ IF err
       THEN /\ Send(r, 500, [error |-> "Failed to save"])
            /\ UNCHANGED <<activityFile, dataFile>>
       ELSE /\ Send(r, 200, [success |-> TRUE])
            /\ IF handler[r].route = "/mc/data"
               THEN dataFile' = handler[r].towrite /\ UNCHANGED activityFile
               ELSE activityFile' = handler[r].towrite /\ UNCHANGED dataFile

NotHandlers == <<clock, NOTION_API_KEY, cachedStats, cacheTime, pc, now, allTasks, hasMore,
                 nextCursor, response, request, pending, nreq, passes, result, cron,
                 svc, clientVars>>

HandlerNext ==
    \/ \E r \in Requests : \E route \in Routes : \E method \in Methods : \E body \in Bodies :
          Receive(r, route, method, body) /\ UNCHANGED NotHandlers
    \/ \E r \in Requests : BodyEnd(r) /\ UNCHANGED NotHandlers
    \/ \E r \in Requests : \E err \in BOOLEAN : ReadDone(r, err) /\ UNCHANGED NotHandlers
    \/ \E r \in Requests : \E err \in BOOLEAN : WriteDone(r, err) /\ UNCHANGED NotHandlers

HandlerSpec == HandlerInit /\ [][HandlerNext]_vars

\* every registered callback is eventually run
HandlerFairSpec ==
    /\ HandlerSpec
    /\ \A r \in Requests :
          /\ WF_vars(BodyEnd(r) /\ UNCHANGED NotHandlers)
          /\ WF_vars(\E err \in BOOLEAN : ReadDone(r, err) /\ UNCHANGED NotHandlers)
          /\ WF_vars(\E err \in BOOLEAN : WriteDone(r, err) /\ UNCHANGED NotHandlers)

\* ---- getServices (server.js) ---------------------------------------------
\* the services array: port is 0 where the entry has none
Services ==
    <<[name |-> "OpenClaw Gateway", port |-> 3000, type |-> ""],
      [name |-> "n8n Digital Ocean", port |-> 0, type |-> "external"],
      [name |-> "MCporter Client", port |-> 8080, type |-> ""],
      [name |-> "Notion API", port |-> 0, type |-> "external"],
      [name |-> "Pinecone", port |-> 0, type |-> "external"],
      [name |-> "Ollama M4 GPU", port |-> 11434, type |-> ""],
      [name |-> "OpenRouter", port |-> 0, type |-> "external"]>>

\* what curl -w "%{http_code}" prints
HttpCodes == {"200", "000"}

\* what the nc command line prints
PortOutputs == {"open", "closed"}

Stdouts(service) == IF service.type = "external" THEN HttpCodes ELSE PortOutputs

\* the object pushed by the callback of an external service
ExternalResult(service, stdout) ==
    LET online == stdout \in {"200", "401", "403"}
    IN [name |-> service.name,
        status |-> IF online THEN "online" ELSE "offline",
        info |-> IF online THEN "OK" ELSE "Unreachable"]

\* the object pushed by the callback of a local port
PortResult(service, stdout) ==
    LET isOpen == stdout = "open"
    IN [name |-> service.name, port |-> service.port,
        status |-> IF isOpen THEN "online" ELSE "offline",
        info |-> IF isOpen THEN "Port open" ELSE "Not responding"]

\* a test that lets the last but one callback send as well
LastCallbackOrBefore(left) == left <= 1

\* pending === 0
LastCallback(left) == left = 0

\* getServices(req, res) up to its return: every exec has been started
SvcCall ==
    /\ svc.pc = "idle"
    /\ svc' = [pc |-> "checking",
               pending |-> Len(Services),
               results |-> <<>>,
               running |-> {i \in 1..Len(Services) :
                               Services[i].type = "external" \/ Services[i].port # 0},
               responses |-> <<>>]

\* the callback of exec for service i
ExecDone(i, stdout) ==
    /\ svc.pc \in {"checking", "sent"}
    /\ i \in svc.running
    /\ LET service == Services[i]
           results == Append(svc.results,
                             IF service.type = "external" THEN ExternalResult(service, stdout)
                             ELSE PortResult(service, stdout))
           left == svc.pending - 1
       IN svc' = [pc |-> IF LastCallback(left) THEN "sent" ELSE svc.pc,
                  pending |-> left,
                  results |-> results,
                  running |-> svc.running \ {i},
                  responses |-> IF LastCallback(left)
                                THEN Append(svc.responses,
                                            [services |-> results, timestamp |-> clock])
                                ELSE svc.responses]

\* the request is over; the next one may arrive
SvcReturn ==
    /\ svc.pc = "sent"
    /\ svc.running = {}
    /\ svc' = SvcIdle

NotSvc == <<clock, NOTION_API_KEY, cachedStats, cacheTime, pc, now, allTasks, hasMore,
            nextCursor, response, request, pending, nreq, passes, result, cron,
            handlerVars, clientVars>>

SvcNext ==
    \/ SvcCall /\ UNCHANGED NotSvc
    \/ \E i \in 1..Len(Services) : \E stdout \in Stdouts(Services[i]) :
          ExecDone(i, stdout) /\ UNCHANGED NotSvc
    \/ SvcReturn /\ UNCHANGED NotSvc

SvcSpec == Init /\ [][SvcNext]_vars

\* ---- ApiClient (client.js) ------------------------------------------------
\* `${endpoint}:${JSON.stringify(options)}`
CacheKey(endpoint, options) == <<endpoint, ":", options>>

Endpoints == {"/status", "/weather?city=London"}

\* JSON.stringify(options) of the options the callers pass
OptionTexts == {"{}"}

Keys == {CacheKey(e, o) : e \in Endpoints, o \in OptionTexts}

\* what response.json() resolves with
Datas == {"x", "y"}

ClientCalls == 1..NumClientCalls

\* how far the clock moves between two steps of the client
TimeSteps == {100, 1000, 2000, 59900}

\* a backoff that does not grow
BackoffDelayFlat(attempt) == 1000

\* Math.pow(2, attempt) * 1000
BackoffDelay(attempt) == (2 ^ attempt) * 1000

\* the hit test with <= in place of <
CacheHitInclusive(entry, t) == entry # Null /\ t - entry.timestamp <= cacheTimeout

\* the entry is present and Date.now() - cached.timestamp < this.cacheTimeout
CacheHit(entry, t) == entry # Null /\ t - entry.timestamp < cacheTimeout

\* fetch(...) is called for attempt k; the timer that was awaited is spent
StartFetch(call, k) ==
    [call EXCEPT !.pc = "fetching", !.attempt = k, !.fetches = @ + 1, !.due = 0]

\* lines 67-76: the catch block at time t
Catch(call, message, t) ==
    IF call.attempt = RETRY_ATTEMPTS - 1
    THEN [call EXCEPT !.pc = "thrown", !.result = message]
    ELSE [call EXCEPT !.pc = "backoff", !.due = t + BackoffDelay(call.attempt)]

\* request(endpoint, options) from its entry to its first await or return;
\* the calls are numbered in the order they are made
ClientCall(c, endpoint, options) ==
    /\ calls[c].pc = "idle"
    /\ \A b \in 1..(c - 1) : calls[b].pc # "idle"
    /\ LET cacheKey == CacheKey(endpoint, options)
           entered == [IdleCall EXCEPT !.key = cacheKey]
           timeSinceLastRequest == msNow - lastRequestTime
       IN IF CacheHit(cache[cacheKey], msNow)
          THEN /\ calls' = [calls EXCEPT ![c] = [entered EXCEPT !.pc = "returned",
                                                                !.result = cache[cacheKey].data]]
               /\ UNCHANGED lastRequestTime
          ELSE IF timeSinceLastRequest < minRequestInterval
          THEN /\ calls' = [calls EXCEPT ![c] =
                              [entered EXCEPT !.pc = "throttled",
                                              !.due = msNow + (minRequestInterval
                                                               - timeSinceLastRequest)]]
               /\ UNCHANGED lastRequestTime
          ELSE /\ lastRequestTime' = msNow
               /\ calls' = [calls EXCEPT ![c] = StartFetch(entered, 0)]
    /\ UNCHANGED <<msNow, cache, successAt, advances>>

\* the throttle timer fires: lines 35-50
ThrottleFire(c) ==
    /\ calls[c].pc = "throttled"
    /\ msNow >= calls[c].due
    /\ lastRequestTime' = msNow
    /\ calls' = [calls EXCEPT ![c] = StartFetch(@, 0)]
    /\ UNCHANGED <<msNow, cache, successAt, advances>>

\* fetch resolves with a response: lines 52-58
FetchResolve(c, ok) ==
    /\ calls[c].pc = "fetching"
    /\ calls' = [calls EXCEPT ![c] = IF ok THEN [@ EXCEPT !.pc = "parsing"]
                                     ELSE Catch(@, "HTTP 500", msNow)]
    /\ UNCHANGED <<msNow, cache, lastRequestTime, successAt, advances>>

\* fetch rejects: the network failed, or the abort timer of line 41 fired
\* (the model lets it fire at any time after the fetch started)
FetchReject(c, reason) ==
    /\ calls[c].pc = "fetching"
    /\ calls' = [calls EXCEPT ![c] = Catch(@, reason, msNow)]
    /\ UNCHANGED <<msNow, cache, lastRequestTime, successAt, advances>>

\* response.json() resolves: lines 60-66
JsonResolve(c, data) ==
    /\ calls[c].pc = "parsing"
    /\ cache' = [cache EXCEPT ![calls[c].key] = [data |-> data, timestamp |-> msNow]]
    /\ successAt' = [successAt EXCEPT ![calls[c].key] = msNow]
    /\ calls' = [calls EXCEPT ![c].pc = "returned", ![c].result = data]
    /\ UNCHANGED <<msNow, lastRequestTime, advances>>

\* response.json() rejects
JsonReject(c) ==
    /\ calls[c].pc = "parsing"
    /\ calls' = [calls EXCEPT ![c] = Catch(@, "Unexpected token", msNow)]
    /\ UNCHANGED <<msNow, cache, lastRequestTime, successAt, advances>>

\* the backoff timer fires: the next iteration of the loop
BackoffFire(c) ==
    /\ calls[c].pc = "backoff"
    /\ msNow >= calls[c].due
    /\ calls' = [calls EXCEPT ![c] = StartFetch(@, @.attempt + 1)]
    /\ UNCHANGED <<msNow, cache, lastRequestTime, successAt, advances>>

\* clearCache()
ClearCache ==
    /\ \E k \in Keys : cache[k] # Null
    /\ cache' = [k \in Keys |-> Null]
    /\ UNCHANGED <<msNow, lastRequestTime, calls, successAt, advances>>

\* time passes
Advance(d) ==
    /\ advances < MaxAdvances
    /\ msNow' = msNow + d
    /\ advances' = advances + 1
    /\ UNCHANGED <<cache, lastRequestTime, calls, successAt>>

NotClient == <<clock, NOTION_API_KEY, cachedStats, cacheTime, pc, now, allTasks, hasMore,
               nextCursor, response, request, pending, nreq, passes, result, cron,
               handlerVars, svc>>

\* no call is between its entry and its return
NoneInFlight == \A c \in ClientCalls : calls[c].pc \in {"idle", "returned", "thrown"}

\* the caller awaits each request before it makes the next, NumAwaitedCalls
\* requests in all
ClientNext ==
    \/ \E c \in 1..NumAwaitedCalls : \E e \in Endpoints : \E o \in OptionTexts :
          NoneInFlight /\ ClientCall(c, e, o) /\ UNCHANGED NotClient
    \/ \E c \in ClientCalls : ThrottleFire(c) /\ UNCHANGED NotClient
    \/ \E c \in ClientCalls : \E ok \in BOOLEAN : FetchResolve(c, ok) /\ UNCHANGED NotClient
    \/ \E c \in ClientCalls : \E reason \in {"Failed to fetch", "aborted"} :
          FetchReject(c, reason) /\ UNCHANGED NotClient
    \/ \E c \in ClientCalls : \E data \in Datas : JsonResolve(c, data) /\ UNCHANGED NotClient
    \/ \E c \in ClientCalls : JsonReject(c) /\ UNCHANGED NotClient
    \/ \E c \in ClientCalls : BackoffFire(c) /\ UNCHANGED NotClient
    \/ ClearCache /\ UNCHANGED NotClient
    \/ \E d \in TimeSteps : Advance(d) /\ UNCHANGED NotClient

ClientSpec == Init /\ [][ClientNext]_vars

\* requests made without awaiting the earlier ones, each answered at once
\* or later with a document
ClientConcNext ==
    \/ \E c \in ClientCalls : \E e \in Endpoints : \E o \in OptionTexts :
          ClientCall(c, e, o) /\ UNCHANGED NotClient
    \/ \E c \in ClientCalls : ThrottleFire(c) /\ UNCHANGED NotClient
    \/ \E c \in ClientCalls : FetchResolve(c, TRUE) /\ UNCHANGED NotClient
    \/ \E c \in ClientCalls : JsonResolve(c, "x") /\ UNCHANGED NotClient
    \/ \E d \in TimeSteps : Advance(d) /\ UNCHANGED NotClient

ClientConcSpec == Init /\ [][ClientConcNext]_vars

\* ---- claims -------------------------------------------------------------
Stale == cachedStats = Null \/ clock - cacheTime >= CACHE_DURATION

BaselineNumbers(r) ==
    /\ r.total = 1020 /\ r.completed = 562 /\ r.inProgress = 4
    /\ r.remaining = 458 /\ r.maxId = 1020

\* C1: a call made while an entry exists and now - cacheTime < 5 minutes
\* returns the fields of the stored payload unchanged plus cached = true and
\* writes no page request; a call that follows a successful one inside the
\* window returns the payload of that one, marked cache-served.
C1_CacheHit ==
    [][\A p \in Callers :
        /\ (Call(p) /\ cachedStats # Null /\ clock - cacheTime < CACHE_DURATION)
              => /\ pc'[p] = "hit"
                 /\ DOMAIN result'[p] = DOMAIN cachedStats \cup {"cached"}
                 /\ \A f \in DOMAIN cachedStats : result'[p][f] = cachedStats[f]
                 /\ result'[p].cached = TRUE
                 /\ nreq'[p] = 0 /\ pending'[p] = 0 /\ request'[p] = NoRequest
                 /\ passes'[p] = 0
                 /\ cachedStats' = cachedStats /\ cacheTime' = cacheTime
        /\ (pc[p] = "fresh" /\ pc'[p] = "hit")
              => /\ \A f \in DOMAIN result[p] : result'[p][f] = result[p][f]
                 /\ result'[p].cached = TRUE
      ]_vars

C1_Witness ==
    /\ pc[1] = "hit" /\ result[1].cached = TRUE /\ nreq[1] = 0
    /\ result[1].activeTasks > 0 /\ clock > cacheTime

\* C2: at most one fetch-and-aggregate pass is in flight at any time.
C2_SinglePassInFlight == Cardinality({p \in Callers : pc[p] = "awaiting"}) <= 1

\* C3: a failed pass resolves the call with the cache entry when one exists
\* (fresh or stale) and with the baseline payload plus an error field when
\* none exists; the call resolves with a value in both cases.
C3_FailureFallback ==
    [][\A p \in Callers :
        (pc[p] = "awaiting" /\ pc'[p] # "awaiting" /\ cachedStats' = cachedStats
         /\ cacheTime' = cacheTime /\ pc'[p] # "fresh")
           => /\ pc'[p] = "failed"
              /\ result'[p] # NoResult
              /\ cachedStats # Null => result'[p] = cachedStats
              /\ cachedStats = Null
                   => /\ BaselineNumbers(result'[p])
                      /\ "error" \in DOMAIN result'[p]
                      /\ result'[p].error \in ErrorMessages
      ]_vars

C3_Witness ==
    /\ pc[1] = "failed" /\ cachedStats # Null /\ result[1] = cachedStats
    /\ now[1] - cacheTime >= CACHE_DURATION

\* C4: every result returned after a failed pass carries the error detail or
\* a stale label.
C4_FailureLabelled ==
    \A p \in Callers :
        pc[p] = "failed" => ("error" \in DOMAIN result[p] \/ "stale" \in DOMAIN result[p])

\* C5: the number of records accumulated by one pass never exceeds the cap,
\* and a pass that ends while has-more is still true holds exactly the cap.
C5_CapRespected ==
    \A p \in Callers :
        /\ Len(allTasks[p]) <= TaskCap
        /\ (pc[p] = "fresh" /\ hasMore[p]) => Len(allTasks[p]) = TaskCap

\* C6: a pass whose page requests are all answered eventually ends.
C6_PassTerminates == \A p \in Callers : (pc[p] = "awaiting") ~> (pc[p] # "awaiting")

CursorOfBody(cursor) == IF cursor = NoCursor THEN Absent ELSE cursor

PageOf(resp) == IF HasResults(resp) THEN resp.results ELSE <<>>

\* C7: within one pass at most one page request is outstanding; the first
\* request carries no cursor; each later request carries the cursor of the
\* response received just before it; the records of each page are appended
\* behind those of the pages before it, in the order of the page.
C7_SequentialPages ==
    [][\A p \in Callers :
        /\ pending'[p] <= 1
        /\ (pc[p] # "awaiting" /\ pc'[p] = "awaiting")
              => /\ request'[p].start_cursor = Absent
                 /\ allTasks'[p] = <<>>
                 /\ pending'[p] = 1
        /\ (/\ pc[p] = "awaiting"
            /\ response'[p] # NoResponse
            /\ <<pc[p], response[p], allTasks[p], request[p], nreq[p]>>
                 # <<pc'[p], response'[p], allTasks'[p], request'[p], nreq'[p]>>)
              => LET page == PageOf(response'[p])
                     old == allTasks[p]
                 IN /\ Len(allTasks'[p]) = Len(old) + Len(page)
                    /\ \A i \in 1..Len(old) : allTasks'[p][i] = old[i]
                    /\ \A i \in 1..Len(page) : allTasks'[p][Len(old) + i] = MapTask(page[i])
                    /\ pc'[p] = "awaiting"
                         => /\ request'[p].start_cursor = CursorOfBody(response'[p].next_cursor)
                            /\ pending'[p] = 1
                    /\ pc'[p] # "awaiting" => pending'[p] = 0
      ]_vars

C7_Witness ==
    /\ pc[1] = "awaiting" /\ nreq[1] >= 2 /\ pending[1] = 1
    /\ response[1] # NoResponse /\ response[1].next_cursor = "c2"
    /\ request[1].start_cursor = "c2"
    /\ Len(allTasks[1]) > Len(PageOf(response[1])) /\ Len(PageOf(response[1])) > 0

OnePass(keyed) ==
    \A p \in Callers :
        /\ (Call(p) /\ Stale /\ keyed)
              => /\ pc'[p] = "awaiting"
                 /\ passes'[p] = 1
                 /\ nreq'[p] = 1
        /\ pc[p] = "awaiting" => passes'[p] = 1
        /\ (pc[p] = "awaiting" /\ pc'[p] = "fresh")
              => /\ cachedStats' = result'[p]
                 /\ cachedStats'.activeTasks = Len(allTasks'[p])
                 /\ cacheTime' = now[p]

\* C8 as stated: a call made with no entry or with now - cacheTime >= 5
\* minutes runs exactly one pass, and on success the cache slot holds the
\* result of that pass with the new timestamp.
C8_OnePassPerStaleCall == [][OnePass(TRUE)]_vars

\* C8 amended: the same for a call made while NOTION_API_KEY is set; without
\* the key such a call runs no pass, writes no request, leaves the cache
\* slot alone and returns the baseline payload with an error field.
C8_OnePassPerStaleCallWithKey ==
    [][/\ OnePass(NOTION_API_KEY)
       /\ \A p \in Callers :
            (Call(p) /\ Stale /\ ~NOTION_API_KEY)
               => /\ pc'[p] = "nokey"
                  /\ passes'[p] = 0 /\ nreq'[p] = 0
                  /\ cachedStats' = cachedStats /\ cacheTime' = cacheTime
                  /\ BaselineNumbers(result'[p]) /\ "error" \in DOMAIN result'[p]
      ]_vars

C8_Witness ==
    /\ pc[1] = "fresh" /\ passes[1] = 1
    /\ cachedStats = result[1] /\ cacheTime = now[1]
    /\ cacheTime >= StartTime + CACHE_DURATION
    /\ cachedStats.lastUpdated > cacheTime

MaxOfIds(tasks) ==
    IF Len(tasks) = 0 THEN 0
    ELSE CHOOSE m \in {tasks[i].idNumber : i \in 1..Len(tasks)} :
            \A i \in 1..Len(tasks) : tasks[i].idNumber <= m

\* C9: in the payload of a successful pass total equals maxId, maxId is the
\* largest sequence id of the fetched records (0 when there is none), and
\* the record count is reported as activeTasks.
C9_TotalIsMaxId ==
    \A p \in Callers :
        pc[p] = "fresh"
           => /\ result[p].total = result[p].maxId
              /\ result[p].maxId = MaxOfIds(allTasks[p])
              /\ result[p].activeTasks = Len(allTasks[p])

C9_Witness ==
    /\ pc[1] = "fresh" /\ Len(allTasks[1]) > 0
    /\ result[1].total = 4 /\ result[1].activeTasks # result[1].total

CompletedAt(tasks) ==
    {i \in 1..Len(tasks) : tasks[i].status \in {"Done", "Completed", "Complete", "Review"}}

InProgressAt(tasks) ==
    {i \in 1..Len(tasks) : tasks[i].status \in {"In Progress", "In progress"}}

\* C10: each fetched record is counted in at most one of completed and
\* inProgress; a record of any other status is counted in neither, and still
\* counts as a record and towards maxId; completed + inProgress never
\* exceeds the number of fetched records.
C10_StatusBuckets ==
    \A p \in Callers :
        pc[p] = "fresh"
           => LET tasks == allTasks[p]
                  r == result[p]
                  n == NotionStats(tasks)
              IN /\ CompletedAt(tasks) \cap InProgressAt(tasks) = {}
                 /\ r.completed = Cardinality(CompletedAt(tasks))
                 /\ r.inProgress = Cardinality(InProgressAt(tasks))
                 /\ r.completed + r.inProgress <= Len(tasks)
                 /\ r.activeTasks = Len(tasks)
                 /\ \A i \in 1..Len(tasks) : tasks[i].idNumber <= r.maxId
                 /\ n.completed = r.completed /\ n.inProgress = r.inProgress
                 /\ n.completed + n.inProgress + n.todo <= n.total
                 /\ n.total = Len(tasks)

C10_Witness ==
    /\ pc[1] = "fresh"
    /\ result[1].completed > 0 /\ result[1].inProgress > 0
    /\ result[1].completed + result[1].inProgress < result[1].activeTasks
    /\ \E i \in 1..Len(allTasks[1]) :
          /\ i \notin CompletedAt(allTasks[1]) \cup InProgressAt(allTasks[1])
          /\ allTasks[1][i].idNumber = result[1].maxId
    /\ \E i \in 1..Len(allTasks[1]) : allTasks[1][i].status = "done"

\* ---- claims about calculateNextRun ----------------------------------------
CronDone == cron.pc = "done"

\* the fields of a call that passed the length test
Fields == Destructure(cron.parts)

\* the instant h:m of the day of t
DayAt(t, h, m) == 1440 * DayOf(t) + 60 * h + m

IsLiteral(field) == field.kind = "lit"

\* C11: with a literal hour H, a literal minute M and a literal day of week
\* D, when now is on weekday D and H:M of today is not after now, the
\* candidate is H:M seven days after today and the label names its weekday.
C11_SameWeekdayNextWeek ==
    (/\ CronDone /\ Len(cron.parts) = 5
     /\ IsLiteral(Fields.minute) /\ IsLiteral(Fields.hour) /\ IsLiteral(Fields.dayOfWeek)
     /\ GetDay(cron.now) = Fields.dayOfWeek.n
     /\ DayAt(cron.now, Fields.hour.n, Fields.minute.n) <= cron.now)
       => /\ cron.next = DayAt(cron.now, Fields.hour.n, Fields.minute.n) + 7 * 1440
          /\ cron.label[1] = WeekdayShort(cron.next) \o " "

\* C12: the day prefix of the label is empty exactly when the candidate is on
\* today's date, "Tomorrow " exactly when it is on the next calendar day, and
\* the short weekday name otherwise.
C12_DayPrefix ==
    (CronDone /\ Len(cron.parts) >= 5 /\ cron.next # NaN)
       => /\ cron.label[1] = "" <=> DayOf(cron.next) = DayOf(cron.now)
          /\ cron.label[1] = "Tomorrow " <=> DayOf(cron.next) = DayOf(cron.now) + 1
          /\ DayOf(cron.next) \notin {DayOf(cron.now), DayOf(cron.now) + 1}
                => cron.label[1] = WeekdayShort(cron.next) \o " "

\* C13: a schedule that does not split into exactly 5 parts gives "Unknown".
C13_UnknownUnlessFive ==
    (CronDone /\ Len(cron.parts) # 5) => cron.label = Unknown

\* the whitespace-separated fields of a string: its tokens
FieldCount(str) == Len(SelectSeq(str, LAMBDA lexeme : lexeme # WS))

\* C14: a schedule with fewer than 5 whitespace-separated fields gives
\* "Unknown".
C14_UnknownBelowFive ==
    (CronDone /\ FieldCount(cron.schedule) < 5) => cron.label = Unknown

\* the least multiple of n above m
NextMultiple(n, m) == CHOOSE k \in (m + 1)..(m + n) : k % n = 0

\* C15: with a minute field */N and an hour field *, the candidate minute is
\* the next multiple of N above the current minute; below 60 the hour stays
\* and the flag is not set, from 60 on the candidate is in the next hour and
\* the flag is set.
C15_MinuteStep ==
    (/\ CronDone /\ Len(cron.parts) >= 5
     /\ StartsWithStep(Fields.minute) /\ IsStar(Fields.hour))
       => LET up == NextMultiple(Fields.minute.n, GetMinutes(cron.now))
              hourStart == cron.now - GetMinutes(cron.now)
          IN /\ cron.afterMinute = hourStart + up
             /\ cron.afterHour = cron.afterMinute
             /\ cron.hourModified <=> up >= 60
             /\ up < 60 => /\ GetHours(cron.afterMinute) = GetHours(cron.now)
                           /\ GetMinutes(cron.afterMinute) = up
             /\ up >= 60 => /\ cron.afterMinute >= hourStart + 60
                            /\ GetMinutes(cron.afterMinute) = up - 60

C15_Witness ==
    /\ CronDone /\ cron.parts = <<Step(15), Star, Star, Star, Star>>
    /\ GetHours(cron.now) = 10 /\ GetMinutes(cron.now) = 52
    /\ cron.hourModified /\ cron.label = <<"", 11, ":", 0, 0, "am">>

\* C16: with a literal hour H and no rollover in the minute step, the
\* candidate hour is set to H and the date moves one day on exactly when
\* that candidate is not after now; a candidate later today is labelled
\* without a day prefix.  After a rollover the literal hour is not applied.
C16_LiteralHour ==
    (/\ CronDone /\ Len(cron.parts) >= 5 /\ cron.afterMinute # NaN
     /\ IsLiteral(Fields.hour))
       => LET set == DayAt(cron.afterMinute, Fields.hour.n, GetMinutes(cron.afterMinute))
          IN /\ cron.hourModified => cron.afterHour = cron.afterMinute
             /\ (~cron.hourModified /\ set > cron.now) => cron.afterHour = set
             /\ (~cron.hourModified /\ set <= cron.now) => cron.afterHour = set + 1440
             /\ (~cron.hourModified /\ IsStar(Fields.dayOfWeek) /\ set > cron.now
                 /\ DayOf(set) = DayOf(cron.now))
                   => cron.label[1] = ""

C16_Witness ==
    /\ CronDone /\ cron.parts = <<Lit(30), Lit(14), Star, Star, Star>>
    /\ GetHours(cron.now) = 10 /\ GetMinutes(cron.now) = 0
    /\ cron.label = <<"", 2, ":", 3, 0, "pm">>

\* C17: with an hour field */N, when the minute field is not a step the
\* candidate hour is the current hour plus N and the candidate minutes are
\* 0; when the minute field is a step the hour field changes nothing.
C17_HourStep ==
    (/\ CronDone /\ Len(cron.parts) >= 5 /\ cron.afterMinute # NaN
     /\ StartsWithStep(Fields.hour))
       => /\ ~StartsWithStep(Fields.minute)
               => /\ GetHours(cron.afterHour) = (GetHours(cron.now) + Fields.hour.n) % 24
                  /\ GetMinutes(cron.afterHour) = 0
          /\ StartsWithStep(Fields.minute) => cron.afterHour = cron.afterMinute

C17_Witness ==
    /\ CronDone /\ cron.parts = <<Lit(30), Step(2), Star, Star, Star>>
    /\ GetHours(cron.now) = 10 /\ GetMinutes(cron.now) = 7
    /\ GetMinutes(cron.afterMinute) = 30
    /\ cron.label = <<"", 12, ":", 0, 0, "pm">>

OtherDayMonth == {<<Star, Star>>, <<Lit(1), Lit(6)>>, <<Lit(31), Lit(12)>>, <<Step(2), Lit(0)>>}

\* C18: two 5-field schedules that differ only in the day-of-month and
\* month fields get the same label at the same instant.
C18_DayMonthIgnored ==
    (CronDone /\ cron.schedule \in WellFormed)
       => \A dm \in OtherDayMonth :
             CalculateNextRun(Join(<<cron.parts[1], cron.parts[2], dm[1], dm[2], cron.parts[5]>>),
                              cron.now).label = cron.label

C18_Witness ==
    /\ CronDone /\ cron.schedule \in WellFormed
    /\ cron.parts[3] = Lit(1) /\ cron.parts[4] = Lit(6) /\ cron.parts[5] = Lit(3)
    /\ cron.label[1] = "Wed "

\* C19: the cache slot is never overwritten by the result of a pass that
\* started before the pass of the current entry: cacheTime never decreases.
C19_CacheTimeMonotone == [][cacheTime' >= cacheTime]_vars

\* C20: for every 5-field schedule of *, */N and in-range literals the
\* candidate is strictly after now.
C20_CandidateInFuture ==
    (CronDone /\ cron.schedule \in WellFormed) => cron.next > cron.now

\* C21: with a literal day of week D the candidate falls on weekday D, also
\* when the literal-hour step has moved the date one day on before the
\* day-of-week step.
C21_WeekdayIsTarget ==
    (/\ CronDone /\ cron.schedule \in WellFormed
     /\ IsLiteral(Fields.dayOfWeek))
       => GetDay(cron.next) = Fields.dayOfWeek.n

\* ---- further claims about getDWEStats -------------------------------------
\* the step of call p is a fetch failure, or a return for the missing key
FailsOrLacksKey(p) ==
    \/ pc[p] = "awaiting" /\ pc'[p] = "failed"
    \/ pc[p] # "awaiting" /\ pc'[p] = "nokey" /\ clock' = clock

C29_PayloadIdentities ==
    \A p \in Callers :
        pc[p] \in {"hit", "nokey", "fresh", "failed"}
           => /\ result[p].total = result[p].maxId
              /\ result[p].remaining = result[p].total - result[p].completed

\* a stale fallback whose numbers differ from the baseline and from the
\* record count
C29_Witness ==
    /\ pc[1] = "failed" /\ cachedStats # Null /\ result[1] = cachedStats
    /\ result[1].completed > 0 /\ result[1].maxId # result[1].activeTasks
    /\ result[1].remaining = result[1].maxId - result[1].completed

\* ---- claims about the HTTP handlers --------------------------------------
HandlersQuiet == \A r \in Requests : handler[r].pc \notin {"body", "reading", "writing"}

\* the POST of r to /mc/activity was answered with success: true
PostSucceeded(r) ==
    /\ handler[r].route = "/mc/activity" /\ handler[r].method = "POST"
    /\ \E i \in 1..Len(handler[r].responses) :
          /\ handler[r].responses[i].status = 200
          /\ handler[r].responses[i].body = [success |-> TRUE]

Stored(entry) == \E i \in 1..Len(activityFile.entries) : activityFile.entries[i] = entry

\* C22: once no read or write is pending, every entry whose POST was
\* answered with success: true is among the stored entries.
C22_NoLostEntry ==
    HandlersQuiet => \A r \in Requests : PostSucceeded(r) => Stored(handler[r].entry)

\* C25: a request routed to /mc/data, /mc/activity or /mc/upload gets a
\* response, and never more than one.
C25_OneResponse ==
    /\ [](\A r \in Requests : Len(handler[r].responses) <= 1)
    /\ \A r \in Requests : (handler[r].pc # "none") ~> (Len(handler[r].responses) = 1)

\* ---- claims about getServices --------------------------------------------
\* the results that carry the name of service i
ResultsOf(results, i) == {k \in 1..Len(results) : results[k].name = Services[i].name}

\* C26: whatever the order of the callbacks, the response is sent once,
\* not before all 7 callbacks have run, and holds one result for each
\* configured service.
C26_OneResponseAfterAll ==
    svc.pc # "idle"
       => /\ Len(Services) = 7
          /\ Len(svc.responses) <= 1
          /\ Len(svc.responses) = 1 <=> svc.running = {}
          /\ Len(svc.responses) = 1
                => /\ Len(svc.results) = Len(Services)
                   /\ svc.responses[1].services = svc.results
                   /\ \A i \in 1..Len(Services) :
                         Cardinality(ResultsOf(svc.results, i)) = 1

\* the callbacks have run in an order that is not the order of the array
C26_Witness ==
    /\ svc.pc = "sent" /\ Len(svc.responses) = 1
    /\ svc.responses[1].services[1].name = "OpenRouter"
    /\ svc.responses[1].services[7].name = "OpenClaw Gateway"
    /\ svc.responses[1].services[1].status = "online"
    /\ svc.responses[1].services[7].status = "offline"

\* ---- claims about ApiClient ----------------------------------------------
\* the step ends attempt number k of call c with a failure
AttemptFails(c, k) ==
    /\ calls[c].pc \in {"fetching", "parsing"} /\ calls[c].attempt = k
    /\ calls'[c].pc \in {"backoff", "thrown"}

\* the errors an attempt can end with, by where it was
ErrorsAt(at) ==
    IF at = "parsing" THEN {"Unexpected token"} ELSE {"HTTP 500", "Failed to fetch", "aborted"}

\* C24: a call without a cache hit makes at most 3 fetch attempts and
\* returns at the first attempt that succeeds; after failed attempt 0 it
\* waits 1 second and after failed attempt 1 it waits 2 seconds before the
\* next attempt; the third failure throws its error at once.
C24_RetryAndBackoff ==
    [][\A c \in ClientCalls :
          /\ calls'[c].fetches <= 3
          /\ calls'[c].fetches > 0 => calls'[c].fetches = calls'[c].attempt + 1
          /\ AttemptFails(c, 0)
                => calls'[c].pc = "backoff" /\ calls'[c].due = msNow + 1000
          /\ AttemptFails(c, 1)
                => calls'[c].pc = "backoff" /\ calls'[c].due = msNow + 2000
          /\ AttemptFails(c, 2)
                => /\ calls'[c].pc = "thrown" /\ calls'[c].fetches = 3
                   /\ calls'[c].result \in ErrorsAt(calls[c].pc)
          /\ (calls[c].pc = "backoff" /\ calls'[c].pc # "backoff")
                => /\ msNow >= calls[c].due
                   /\ calls'[c].pc = "fetching" /\ calls'[c].attempt = calls[c].attempt + 1
          /\ (calls[c].pc = "parsing" /\ calls'[c].pc = "returned")
                => calls'[c].fetches = calls[c].fetches
          /\ calls[c].pc \in {"returned", "thrown"} => calls'[c] = calls[c]]_vars

\* three attempts have failed, 1 second and then 2 seconds apart at least
C24_Witness ==
    \E c \in ClientCalls :
        /\ calls[c].pc = "thrown" /\ calls[c].fetches = 3
        /\ calls[c].result = "Unexpected token"
        /\ msNow >= ClientStart + 3000

\* C27: the first fetch attempts of any two calls start at least
\* minRequestInterval apart: when a call starts its first attempt, the first
\* attempt before it (lastRequestTime holds its instant) is 100 ms old.
C27_FirstFetchesApart ==
    [][\A c \in ClientCalls :
          (calls[c].pc \in {"idle", "throttled"} /\ calls'[c].pc = "fetching")
             => msNow - lastRequestTime >= 100]_vars

\* the step adds or replaces an entry of the cache
CacheWritten == \E k \in Keys : cache'[k] # Null /\ cache'[k] # cache[k]

\* the step is the success of call c
Succeeds(c) ==
    /\ calls[c].pc = "parsing" /\ calls'[c].pc = "returned"
    /\ cache' = [cache EXCEPT ![calls[c].key] = [data |-> calls'[c].result, timestamp |-> msNow]]

\* the step is the entry of call c
Enters(c) == calls[c].pc = "idle" /\ calls'[c].pc # "idle"

\* the entering call is served from the cache, with no fetch
ServedFromCache(c) ==
    /\ calls'[c].pc = "returned" /\ calls'[c].fetches = 0
    /\ cache[calls'[c].key] # Null
    /\ calls'[c].result = cache[calls'[c].key].data

\* only successes write the cache, and failures leave it alone
OnlySuccessCached ==
    /\ CacheWritten => \E c \in ClientCalls : Succeeds(c)
    /\ \A c \in ClientCalls :
          (calls'[c].pc \in {"backoff", "thrown"} /\ calls'[c] # calls[c]) => cache' = cache

\* C28 as stated: only successes are cached; a request for a key that
\* succeeded less than 60000 ms ago is served from the cache with no fetch,
\* and one made 60000 ms or more after the success fetches again.
C28_CacheWindow ==
    [][/\ OnlySuccessCached
       /\ \A c \in ClientCalls :
             (Enters(c) /\ successAt[calls'[c].key] > 0)
                => IF msNow - successAt[calls'[c].key] < 60000
                   THEN ServedFromCache(c)
                   ELSE calls'[c].pc \in {"throttled", "fetching"}]_vars

\* C28 amended: the same, for a key whose entry has not been removed by
\* clearCache() since the success; after clearCache() the request fetches.
C28_CacheWindowUnlessCleared ==
    [][/\ OnlySuccessCached
       /\ \A c \in ClientCalls :
             Enters(c)
                => IF cache[calls'[c].key] = Null
                   THEN calls'[c].pc \in {"throttled", "fetching"}
                   ELSE /\ cache[calls'[c].key].timestamp = successAt[calls'[c].key]
                        /\ IF msNow - successAt[calls'[c].key] < 60000
                           THEN ServedFromCache(c)
                           ELSE calls'[c].pc \in {"throttled", "fetching"}]_vars

\* a request served from the cache 59900 ms after the success, with another
\* endpoint's entry beside it
C28_Witness ==
    \E c \in ClientCalls :
        /\ calls[c].pc = "returned" /\ calls[c].fetches = 0
        /\ cache[calls[c].key] # Null
        /\ msNow - cache[calls[c].key].timestamp = 59900
        /\ calls[c].result = cache[calls[c].key].data
====
